---- MODULE Spec2Model ----
(***************************************************************************)
(* Learning analytics and ranking of the elearncore backend: the student   *)
(* dashboard (DashboardViewSet.list) with its per-user short-TTL cache,    *)
(* the progress garden (KidsViewSet.progress_garden) with its              *)
(* scope-population ranking, the writers of the tables they read           *)
(* (TakeLessonViewSet and the two grading actions of TeacherViewSet), the  *)
(* submission of solutions (KidsViewSet.submit_solution) and the review    *)
(* counts of the teacher dashboard (TeacherViewSet.dashboard).             *)
(*                                                                         *)
(* Scores are FloatFields in the source; they are modelled as integers,    *)
(* not-a-number as one value apart from them, and every mean as an exact   *)
(* fraction [num, den].  Payload fields that no                            *)
(* property below reads (upcoming, recent_activities, points) are left out *)
(* of the payload record.                                                  *)
(***************************************************************************)
EXTENDS Integers, Sequences, FiniteSets, TLC

\* ------------------------------------------------------------------ bounds
NumCallers == 3      \* students that issue requests and are written to
MaxCrowd == 21       \* largest pre-existing cohort of other students
NumSubjects == 4
NumLessons == 4
NumLessonAssessments == 2
NumGeneralAssessments == 2
MaxMarks == 24       \* marks of every assessment
NumSchools == 3
NumReqs == 2         \* dashboard requests in flight at once
MaxTakes == 2        \* lesson-taken rows the callers may add
MaxGradeRows == 2    \* grade rows (of each kind) the callers may receive
TickStep == 100      \* seconds per clock step
MaxTime == 200       \* the clock stops here
MaxDays == 5         \* calendar days after the first one
StreakDays == 2      \* of which the dashboard runs see this many
NumPosts == 2        \* take-lesson requests in flight at once
NumSubmits == 2      \* submit-solution requests in flight at once

\* ------------------------------------------------------- program constants
TTL == 120           \* cache.set(cache_key, data, timeout=120)
TopN == 20           \* rank__lte=20 / rank_val <= 20
PendingCap == 5      \* if len(pending_submissions) >= 5: break
DayLen == 86400      \* timedelta(days=1), in seconds

\* ------------------------------------------------------------ static data
G1 == "GRADE 1"
G2 == "GRADE 2"
Other == "OTHER"
None == "None"

NumStudents == NumCallers + MaxCrowd
Students == 1..NumStudents
Callers == 1..NumCallers
Subjects == 1..NumSubjects
Lessons == 1..NumLessons
LessonAssessments == 1..NumLessonAssessments
GeneralAssessments == 1..NumGeneralAssessments
Reqs == 1..NumReqs
Posts == 1..NumPosts
Schools == 1..NumSchools
Submits == 1..NumSubmits

\* request.user of a teacher: a user with no Student profile
Teacher == NumStudents + 1
Users == Callers \cup {Teacher}
\* HasStudent, had every user a Student profile
HasStudentAlways(u) == TRUE

\* getattr(user, 'student', None): the user has a Student profile
HasStudent(u) == u \in Students

\* Student.grade: the last caller has the default grade OTHER, the caller
\* before is in GRADE 2, everybody else in GRADE 1
StudentGrade(s) ==
  IF s = NumCallers THEN Other
  ELSE IF s = NumCallers - 1 THEN G2
  ELSE G1
\* Subject.grade: the last two subjects are GRADE 2 subjects, the others
\* GRADE 1 subjects; no subject has the grade OTHER
SubjectGrade(sub) == IF sub >= NumSubjects - 1 THEN G2 ELSE G1
\* LessonResource.subject: the last subject has no lesson
LessonSubject(l) == ((l - 1) % (NumSubjects - 1)) + 1
\* LessonAssessment.lesson
LALesson(a) == ((2 * a - 2) % NumLessons) + 1
\* GeneralAssessment.grade: assessment 1 is global (NULL), the others GRADE 1
GAGrade(a) == IF a = 1 THEN None ELSE G1
\* LessonAssessment.marks / GeneralAssessment.marks
LAMarks(a) == MaxMarks
GAMarks(a) == MaxMarks

\* Student.status: the last caller is waiting for approval (the default),
\* everybody else is approved
StudentStatus(s) == IF s = NumCallers THEN "PENDING" ELSE "APPROVED"
\* Teacher.school of the teacher
TeacherSchool == 1
\* GeneralAssessment.given_by: the last general assessment is another
\* teacher's, the others are the teacher's
GAGivenBy(a) == IF a = NumGeneralAssessments THEN Teacher + 1 ELSE Teacher
\* GeneralAssessment.due_at: the assessments fall due in the order of their ids
GADueAt(a) == a
\* GeneralAssessmentGrade.solution of a grade row: NULL (0) in every row,
\* the grading action sets score only and nothing else writes the table
GradeSolutionId(g) == 0

\* Student.school_id: the last caller has no school (0), the others are spread
\* over the schools
StudentSchool(s) == IF s = NumCallers THEN 0 ELSE ((s - 1) % NumSchools) + 1
\* School.district: the last school lies in district 2, the others in district 1
SchoolDistrict(sch) == IF sch = NumSchools THEN 2 ELSE 1
\* District.county: one county
DistrictCounty(d) == 1

\* scores a teacher submits: the lowest, and the two highest allowed
ScoreInputs == {0, MaxMarks - 1, MaxMarks}
\* float(score) of the string "nan": the float that compares false with
\* every number, here a value apart from every number a request carries
NaN == 0 - 2 * MaxMarks - 1
\* the scores a grading request may carry: the allowed ones, one below and
\* one above the range, and not-a-number
ScoreRequests == ScoreInputs \cup {0 - 1, MaxMarks + 1, NaN}
\* the texts a submission may carry
Texts == {"draft", "final"}
\* sizes of the cohort of other students the ranking runs start from
CrowdSizes == {0, 1, TopN - 1, TopN, MaxCrowd}

VARIABLES
  takeLessons,    \* TakeLesson rows: [student, lesson, created_at]
  activities,     \* Activity rows written by take-lesson: [user, lesson, created_at]
  lessonGrades,   \* LessonAssessmentGrade rows: [assessment, student, score, created_at]
  generalGrades,  \* GeneralAssessmentGrade rows: [assessment, student, score, created_at]
  now,            \* timezone.now() / the cache's clock, in seconds
  cache,          \* django cache: user of the key -> NoEntry or [data, expires]
  req,            \* the dashboard requests in flight: position and locals
  resp,           \* the last dashboard response sent: [req, user, hit, data]
  history,        \* per user, the cache.set calls whose TTL has not run out
  garden,         \* the last progress-garden response
  posts,          \* the take-lesson requests in flight: position and input
  posted,         \* the last take-lesson response: [status, student, lesson]
  graded,         \* the last response of a grading action: [status, detail]
  solutions,      \* AssessmentSolution rows: [id, assessment, student, solution]
  submits,        \* the submit-solution requests in flight: position and input
  submitted,      \* the last submit-solution response
  review          \* the last teacher dashboard response

vars == <<takeLessons, activities, lessonGrades, generalGrades, now, cache,
          req, resp, history, garden, posts, posted, graded, solutions, submits,
          submitted, review>>

\* the state of the solution desk: the submit-solution action of KidsViewSet
\* and the dashboard of TeacherViewSet
solutionVars == <<solutions, submits, submitted, review>>

\* ---------------------------------------------------------------- helpers
RECURSIVE SumScores(_)
\* sum(scores) over a set of grade rows
SumScores(rows) ==
  IF rows = {} THEN 0
  ELSE LET g == CHOOSE x \in rows : TRUE
       IN g.score + SumScores(rows \ {g})

\* exact fractions
Frac(n, d) == [num |-> n, den |-> d]
FracEq(a, b) == a.num * b.den = b.num * a.den
FracLt(a, b) == a.num * b.den < b.num * a.den

\* Python 3 round(num / den): to the nearest integer, halves to the even one
PyRound(n, d) ==
  LET q == n \div d
      r == n % d
  IN IF 2 * r < d THEN q
     ELSE IF 2 * r > d THEN q + 1
     ELSE IF q % 2 = 0 THEN q ELSE q + 1

\* TruncDate('created_at') / now.date(): the calendar day (UTC) of a time
DayOf(t) == t \div DayLen

\* ------------------------------------------------------------ the tables
\* the cohort of k other students a ranking run starts from: crowd member i
\* has taken lessons 1 and 2 and holds the i-th highest score of general
\* assessment 1 (all scores distinct)
CrowdOf(k) == (NumCallers + 1)..(NumCallers + k)
CrowdTakes(k) ==
  {[student |-> s, lesson |-> l, created_at |-> 0] : s \in CrowdOf(k), l \in {1, 2}}
CrowdGrades(k) ==
  {[assessment |-> 1, student |-> s, score |-> MaxMarks - (s - NumCallers - 1),
    created_at |-> 0] : s \in CrowdOf(k)}

NoBadge == [show |-> FALSE, type |-> None, rank |-> 0, kind |-> None, of |-> 0]
NoBest == [kind |-> None, assessment |-> 0, rank |-> 0, created_at |-> 0]
\* the response body; student_ranking.kind/of stand for the subtitle, which
\* names the subject (lesson kind) or the assessment (general kind)
NoData ==
  [quick_stats |-> [total_courses |-> -1, completed_courses |-> 0,
                    in_progress_courses |-> 0],
   continue_learning |-> <<>>,
   overall_progress_percent |-> 0, student_ranking |-> NoBadge,
   streaks |-> [current_study_streak_days |-> 0]]
NoEntry == [present |-> FALSE, data |-> NoData, expires |-> 0, readAt |-> 0]
IdleReq ==
  [pc |-> "idle", user |-> 0, readAt |-> 0, total_courses |-> 0,
   completed_courses |-> 0, in_progress_courses |-> 0,
   continue_learning |-> <<>>, cur |-> 0,
   best |-> NoBest, student_ranking |-> NoBadge]
NoResp == [req |-> 0, user |-> 0, status |-> 0, hit |-> FALSE, data |-> NoData]
NoRank == [shown |-> FALSE, rank |-> 0, out_of |-> 0]
NoGarden == [user |-> 0]
IdlePost == [pc |-> "idle", student |-> 0, lesson |-> 0]
NoPosted == [status |-> 0, student |-> 0, lesson |-> 0]
NoGraded == [status |-> 0, detail |-> None]
IdleSubmit == [pc |-> "idle", student |-> 0, assessment |-> 0, solution |-> ""]
NoSubmitted == [status |-> 0, student |-> 0, assessment |-> 0, solution_id |-> 0]
NoReview == [status |-> 0]
\* the body of the 403 response of the student views
ProfileRequired == [detail |-> "Student profile required."]

InitRest ==
  /\ activities = {}
  /\ cache = [u \in Users |-> NoEntry]
  /\ req = [r \in Reqs |-> IdleReq]
  /\ resp = NoResp
  /\ history = [u \in Callers |-> <<>>]
  /\ garden = NoGarden
  /\ posts = [q \in Posts |-> IdlePost]
  /\ posted = NoPosted
  /\ graded = NoGraded
  /\ submits = [q \in Submits |-> IdleSubmit]
  /\ submitted = NoSubmitted
  /\ review = NoReview

\* a fresh deployment: empty tables, empty cache
Init ==
  /\ takeLessons = {}
  /\ lessonGrades = {}
  /\ generalGrades = {}
  /\ solutions = {}
  /\ now = 0
  /\ InitRest

\* a deployment in which a cohort of other students is already active, and
\* the first caller may have been graded in lesson assessment 1 before
InitCohort ==
  /\ \E k \in CrowdSizes :
       /\ takeLessons = CrowdTakes(k)
       /\ generalGrades = CrowdGrades(k)
  /\ lessonGrades \in
       {{}, {[assessment |-> 1, student |-> 1, score |-> MaxMarks, created_at |-> 0]}}
  /\ solutions = {}
  /\ now = TickStep
  /\ InitRest

\* ------------------------------------------------------------ the writers
\* TakeLessonSerializer's unique-together validator: (student, lesson) is new
TakeIsNew(s, l) == \A t \in takeLessons : ~(t.student = s /\ t.lesson = l)

CallerTakes == {t \in takeLessons : t.student \in Callers}

\* TakeLesson, had perform_create purged the student's dashboard entry
TakeLessonPurging(s, l) ==
  /\ TakeIsNew(s, l)
  /\ takeLessons' = takeLessons \cup
       {[student |-> s, lesson |-> l, created_at |-> now]}
  /\ activities' = activities \cup
       {[user |-> s, lesson |-> l, created_at |-> now]}
  /\ cache' = [cache EXCEPT ![s] = NoEntry]
  /\ UNCHANGED <<graded, lessonGrades, generalGrades, now, req, resp, history, garden, posts, posted>>
  /\ UNCHANGED solutionVars

\* TakeLesson, had the write waited for the dashboard computations in flight
TakeLessonWaiting(s, l) ==
  /\ \A r \in Reqs : req[r].pc = "idle"
  /\ TakeIsNew(s, l)
  /\ takeLessons' = takeLessons \cup
       {[student |-> s, lesson |-> l, created_at |-> now]}
  /\ activities' = activities \cup
       {[user |-> s, lesson |-> l, created_at |-> now]}
  /\ UNCHANGED <<graded, lessonGrades, generalGrades, now, cache, req, resp, history, garden, posts, posted>>
  /\ UNCHANGED solutionVars

\* POST take-lesson: TakeLessonViewSet.create / perform_create.  A repeated
\* (student, lesson) is rejected by the serializer and nothing is written.
TakeLesson(s, l) ==
  /\ TakeIsNew(s, l)
  /\ takeLessons' = takeLessons \cup
       {[student |-> s, lesson |-> l, created_at |-> now]}
  /\ activities' = activities \cup
       {[user |-> s, lesson |-> l, created_at |-> now]}
  /\ UNCHANGED <<graded, lessonGrades, generalGrades, now, cache, req, resp, history, garden, posts, posted>>
  /\ UNCHANGED solutionVars

\* take-lesson, first half: serializer.is_valid(raise_exception=True).  The
\* unique-together validator answers 400 for a (student, lesson) that is there.
TakeLessonValidate(q, s, l) ==
  /\ posts[q].pc = "idle"
  /\ IF TakeIsNew(s, l)
     THEN /\ posts' = [posts EXCEPT ![q] = [pc |-> "save", student |-> s, lesson |-> l]]
          /\ UNCHANGED posted
     ELSE /\ posted' = [status |-> 400, student |-> s, lesson |-> l]
          /\ UNCHANGED posts
  /\ UNCHANGED <<graded, takeLessons, activities, lessonGrades, generalGrades, now, cache,
                 req, resp, history, garden>>
  /\ UNCHANGED solutionVars

\* TakeLessonSave, had the table no unique constraint on (student, lesson)
TakeLessonSaveUnchecked(q) ==
  /\ posts[q].pc = "save"
  /\ LET s == posts[q].student
         l == posts[q].lesson
     IN /\ takeLessons' = takeLessons \cup
             {[student |-> s, lesson |-> l, created_at |-> now]}
        /\ activities' = activities \cup
             {[user |-> s, lesson |-> l, created_at |-> now]}
        /\ posted' = [status |-> 201, student |-> s, lesson |-> l]
  /\ posts' = [posts EXCEPT ![q] = IdlePost]
  /\ UNCHANGED <<graded, lessonGrades, generalGrades, now, cache, req, resp, history, garden>>
  /\ UNCHANGED solutionVars

\* take-lesson, second half: perform_create.  serializer.save() inserts the
\* row; the unique constraint of the table refuses a (student, lesson) that a
\* concurrent request has inserted since the validation, the IntegrityError
\* ends the request with 500 and nothing is written.
TakeLessonSave(q) ==
  /\ posts[q].pc = "save"
  /\ LET s == posts[q].student
         l == posts[q].lesson
     IN IF TakeIsNew(s, l)
        THEN /\ takeLessons' = takeLessons \cup
                  {[student |-> s, lesson |-> l, created_at |-> now]}
             /\ activities' = activities \cup
                  {[user |-> s, lesson |-> l, created_at |-> now]}
             /\ posted' = [status |-> 201, student |-> s, lesson |-> l]
        ELSE /\ posted' = [status |-> 500, student |-> s, lesson |-> l]
             /\ UNCHANGED <<takeLessons, activities>>
  /\ posts' = [posts EXCEPT ![q] = IdlePost]
  /\ UNCHANGED <<graded, lessonGrades, generalGrades, now, cache, req, resp, history, garden>>
  /\ UNCHANGED solutionVars

\* UpdateOrCreate, had it been a plain create
UpdateOrCreateAppend(rows, a, s, sc) ==
  rows \cup {[assessment |-> a, student |-> s, score |-> sc, created_at |-> now]}

\* <Model>.objects.update_or_create(assessment, student, defaults={score}):
\* the existing row keeps its created_at, a new row is stamped with now
UpdateOrCreate(rows, a, s, sc) ==
  IF \E g \in rows : g.assessment = a /\ g.student = s
  THEN {IF g.assessment = a /\ g.student = s
        THEN [g EXCEPT !.score = sc] ELSE g : g \in rows}
  ELSE rows \cup {[assessment |-> a, student |-> s, score |-> sc, created_at |-> now]}

CallerRows(rows) == {g \in rows : g.student \in Callers}

\* x < y of two floats: false when either is not-a-number
FloatLt(x, y) == x # NaN /\ y # NaN /\ x < y

\* the two range checks of a grading action on score_value = float(score):
\* the response they end the request with, 200 when both let it pass
ScoreCheck(score_value, marks) ==
  IF FloatLt(score_value, 0)
  THEN [status |-> 400, detail |-> "score cannot be negative."]
  ELSE IF FloatLt(marks, score_value)
  THEN [status |-> 400, detail |-> "score cannot exceed assessment total marks."]
  ELSE [status |-> 200, detail |-> None]

\* POST grade/lesson: TeacherViewSet.grade_lesson_assessment, called by the
\* teacher who owns the assessment for a student who exists
GradeLesson(a, s, sc) ==
  /\ graded' = ScoreCheck(sc, LAMarks(a))
  /\ lessonGrades' = IF graded'.status = 200
                     THEN UpdateOrCreate(lessonGrades, a, s, sc)
                     ELSE lessonGrades
  /\ UNCHANGED <<takeLessons, activities, generalGrades, now, cache, req, resp,
                 history, garden, posts, posted>>
  /\ UNCHANGED solutionVars

\* POST grade/general: TeacherViewSet.grade_general_assessment
GradeGeneral(a, s, sc) ==
  /\ graded' = ScoreCheck(sc, GAMarks(a))
  /\ generalGrades' = IF graded'.status = 200
                      THEN UpdateOrCreate(generalGrades, a, s, sc)
                      ELSE generalGrades
  /\ UNCHANGED <<takeLessons, activities, lessonGrades, now, cache, req, resp,
                 history, garden, posts, posted>>
  /\ UNCHANGED solutionVars

\* ------------------------------------------------------------- the cache
\* CacheKey, had the key left out the user id
CacheKeyShared(u) == 1

\* cache_key = f"dashboard:{user.id}"
CacheKey(u) == u

\* CacheGet, had the lookup used another key than the store
CacheGetOtherKey(u) == NoEntry

\* cache.get(key): the entry of the key, NoEntry when there is none
CacheGet(u) == cache[CacheKey(u)]

\* CacheSet, had the timeout been taken in other units (twice as long)
CacheSetLong(u, data, timeout, readAt) ==
  [cache EXCEPT ![CacheKey(u)] = [present |-> TRUE, data |-> data,
                                  expires |-> now + 2 * timeout, readAt |-> readAt]]

\* cache.set(key, data, timeout); readAt remembers when the data was read
CacheSet(u, data, timeout, readAt) ==
  [cache EXCEPT ![CacheKey(u)] = [present |-> TRUE, data |-> data,
                                  expires |-> now + timeout, readAt |-> readAt]]

\* the cache backend: an entry is gone once its timeout has passed
Expire(c, t) ==
  [u \in DOMAIN c |-> IF c[u].present /\ c[u].expires <= t THEN NoEntry ELSE c[u]]

\* time passes
Tick ==
  /\ now + TickStep <= MaxTime
  /\ now' = now + TickStep
  /\ cache' = Expire(cache, now')
  /\ history' = [u \in Callers |->
                   SelectSeq(history[u], LAMBDA e : now' < e.at + TTL)]
  /\ UNCHANGED <<graded, takeLessons, activities, lessonGrades, generalGrades, req, resp, garden, posts, posted>>
  /\ UNCHANGED solutionVars

\* a calendar day passes: the clock moves to the same time of the next day
NextDay ==
  /\ DayOf(now) < MaxDays
  /\ now' = now + DayLen
  /\ cache' = Expire(cache, now')
  /\ history' = [u \in Callers |->
                   SelectSeq(history[u], LAMBDA e : now' < e.at + TTL)]
  /\ UNCHANGED <<graded, takeLessons, activities, lessonGrades, generalGrades, req, resp,
                 garden, posts, posted>>
  /\ UNCHANGED solutionVars

\* ---------------------------------------------- DashboardViewSet.list
\* Subject.objects.filter(grade=student.grade)
SubjectsOf(s) == {sub \in Subjects : SubjectGrade(sub) = StudentGrade(s)}
\* total_by_subject[sub]
TotalBySubject(sub) == Cardinality({l \in Lessons : LessonSubject(l) = sub})
\* taken_qs: TakeLesson rows of the student for lessons of the student's grade
TakenQs(s) ==
  {t \in takeLessons :
     t.student = s /\ SubjectGrade(LessonSubject(t.lesson)) = StudentGrade(s)}
\* taken_by_subject[sub]
TakenBySubject(s, sub) ==
  Cardinality({t \in TakenQs(s) : LessonSubject(t.lesson) = sub})
\* Percent, had a subject without lessons counted as complete
PercentOfNone(taken, total) ==
  IF total # 0 THEN PyRound(taken * 100, total) ELSE 100

\* percent = int(round((taken / total) * 100)) if total else 0
Percent(taken, total) ==
  IF total # 0 THEN PyRound(taken * 100, total) ELSE 0

\* IsCompleted, had the first branch not asked for tot > 0
IsCompletedOfNone(s, sub) ==
  TakenBySubject(s, sub) >= TotalBySubject(sub)

\* the two branches of the loop over subjects_qs
IsCompleted(s, sub) ==
  TotalBySubject(sub) > 0 /\ TakenBySubject(s, sub) >= TotalBySubject(sub)
IsInProgress(s, sub) ==
  /\ ~IsCompleted(s, sub)
  /\ TakenBySubject(s, sub) > 0
  /\ TakenBySubject(s, sub) < TotalBySubject(sub)

\* continue_learning: percent_complete of the subjects in progress
ContinueLearning(s) ==
  [sub \in {x \in SubjectsOf(s) : IsInProgress(s, x)} |->
     Percent(TakenBySubject(s, sub), TotalBySubject(sub))]

\* DenseRank() OVER (PARTITION BY assessment ORDER BY score DESC), evaluated
\* over the rows the WHERE clause of the query keeps
DenseRank(rows, g) ==
  1 + Cardinality({h.score : h \in {x \in rows :
                                      x.assessment = g.assessment /\ x.score > g.score}})

\* .filter(..., rank__lte=20): the rows of the window query with their rank
Ranked(rows, kind) ==
  {[kind |-> kind, assessment |-> g.assessment, rank |-> DenseRank(rows, g),
    created_at |-> g.created_at] : g \in rows}

\* the WHERE clause of the lesson_top query.  Django puts every filter that
\* does not name the window annotation into the WHERE clause of the inner
\* query, student=student included, and evaluates the window over the result
LessonTopWhere(s) ==
  {g \in lessonGrades :
     /\ SubjectGrade(LessonSubject(LALesson(g.assessment))) = StudentGrade(s)
     /\ g.student = s}

\* the WHERE clause of the general_top query
GeneralTopWhere(s) ==
  {g \in generalGrades :
     /\ (GAGrade(g.assessment) = None \/ GAGrade(g.assessment) = StudentGrade(s))
     /\ g.student = s}

\* .order_by('rank', '-created_at').first(): the rows that may come first
\* (rows equal on both keys come in an order the database chooses)
FirstOf(rows) ==
  {x \in rows : \A y \in rows :
     x.rank < y.rank \/ (x.rank = y.rank /\ x.created_at >= y.created_at)}

\* lesson_top / general_top: the candidates, {NoBest} when the query is empty
TopOf(rows, kind) ==
  LET q == {x \in Ranked(rows, kind) : x.rank <= TopN}
  IN IF q = {} THEN {NoBest} ELSE FirstOf(q)

\* best = lesson_top if lesson_top.rank <= general_top.rank else general_top
BestOf(lt, gt) ==
  IF lt # NoBest /\ gt # NoBest
  THEN (IF lt.rank <= gt.rank THEN lt ELSE gt)
  ELSE IF lt # NoBest THEN lt
  ELSE IF gt # NoBest THEN gt
  ELSE NoBest

\* my_taken = taken_qs.count()
MyTaken(s) == Cardinality(TakenQs(s))
\* better: the students of the same grade whose TakeLesson rows outnumber my_taken
Better(s) ==
  Cardinality({p \in Students :
     /\ StudentGrade(p) = StudentGrade(s)
     /\ Cardinality({t \in takeLessons : t.student = p}) > MyTaken(s)})

\* the engagement badge of the else branch
EngagementBadge(s) ==
  IF MyTaken(s) > 0 /\ Better(s) + 1 <= TopN
  THEN [show |-> TRUE, type |-> "engagement_top20", rank |-> Better(s) + 1,
        kind |-> None, of |-> 0]
  ELSE NoBadge

\* student_ranking for the chosen best row
BadgeOf(s, best) ==
  IF best # NoBest
  THEN [show |-> TRUE, type |-> "assessment_top20", rank |-> best.rank,
        kind |-> best.kind,
        of |-> IF best.kind = "lesson"
               THEN LessonSubject(LALesson(best.assessment))
               ELSE best.assessment]
  ELSE EngagementBadge(s)

\* date_set: the days of the rows of taken_qs
DateSet(s) == {DayOf(t.created_at) : t \in TakenQs(s)}

RECURSIVE CurrentStreak(_, _)
\* cur: while d in date_set: cur += 1; d = d - timedelta(days=1)
CurrentStreak(date_set, d) ==
  IF d \in date_set THEN 1 + CurrentStreak(date_set, d - 1) ELSE 0

\* OverallProgress, had it left out the division by total
OverallProgressUnscaled(completed, total) ==
  IF total > 0 THEN completed * 100 ELSE 0

\* overall_progress = round(completed / total * 100) if total > 0 else 0
OverallProgress(completed, total) ==
  IF total > 0 THEN PyRound(completed * 100, total) ELSE 0

\* data = {...}
Payload(q) ==
  [quick_stats |-> [total_courses |-> q.total_courses,
                    completed_courses |-> q.completed_courses,
                    in_progress_courses |-> q.in_progress_courses],
   continue_learning |-> q.continue_learning,
   overall_progress_percent |-> OverallProgress(q.completed_courses, q.total_courses),
   student_ranking |-> q.student_ranking,
   streaks |-> [current_study_streak_days |-> q.cur]]

\* the request begins: the profile check, then the cache lookup.  A user
\* without a Student profile is refused, a hit answers at once.
DashLookup(r, u) ==
  /\ req[r].pc = "idle"
  /\ IF ~HasStudent(u)
     THEN /\ resp' = [req |-> r, user |-> u, status |-> 403, hit |-> FALSE,
                      data |-> ProfileRequired]
          /\ UNCHANGED req
     ELSE LET cached == CacheGet(u)
          IN IF cached.present
             THEN /\ resp' = [req |-> r, user |-> u, status |-> 200, hit |-> TRUE,
                              data |-> cached.data]
                  /\ UNCHANGED req
             ELSE /\ req' = [req EXCEPT ![r] =
                               [IdleReq EXCEPT !.pc = "courses", !.user = u]]
                  /\ UNCHANGED resp
  /\ UNCHANGED <<graded, takeLessons, activities, lessonGrades, generalGrades, now, cache,
                 history, garden, posts, posted>>
  /\ UNCHANGED solutionVars

\* a miss reads the catalogue and the student's lessons taken per subject
DashReadCourses(r) ==
  /\ req[r].pc = "courses"
  /\ LET s == req[r].user
     IN req' = [req EXCEPT ![r] =
          [@ EXCEPT !.pc = "ranking",
                    !.readAt = now,
                    !.total_courses = Cardinality(SubjectsOf(s)),
                    !.completed_courses =
                       Cardinality({sub \in SubjectsOf(s) : IsCompleted(s, sub)}),
                    !.in_progress_courses =
                       Cardinality({sub \in SubjectsOf(s) : IsInProgress(s, sub)}),
                    !.continue_learning = ContinueLearning(s)]]
  /\ UNCHANGED <<graded, takeLessons, activities, lessonGrades, generalGrades, now, cache,
                 resp, history, garden, posts, posted>>
  /\ UNCHANGED solutionVars

\* then the days of the student's lessons, the grades and, without a top-20
\* grade, the lessons of the grade peers
DashReadRanking(r) ==
  /\ req[r].pc = "ranking"
  /\ LET s == req[r].user
     IN \E lt \in TopOf(LessonTopWhere(s), "lesson") :
        \E gt \in TopOf(GeneralTopWhere(s), "general") :
          req' = [req EXCEPT ![r] =
            [@ EXCEPT !.pc = "store",
                      !.cur = CurrentStreak(DateSet(s), DayOf(req[r].readAt)),
                      !.best = BestOf(lt, gt),
                      !.student_ranking = BadgeOf(s, BestOf(lt, gt))]]
  /\ UNCHANGED <<graded, takeLessons, activities, lessonGrades, generalGrades, now, cache,
                 resp, history, garden, posts, posted>>
  /\ UNCHANGED solutionVars

\* DashStore, had it used cache.add, which keeps an entry that is there
DashStoreIfAbsent(r) ==
  /\ req[r].pc = "store"
  /\ LET u == req[r].user
         data == Payload(req[r])
     IN /\ cache' = IF cache[u].present THEN cache
                    ELSE CacheSet(u, data, TTL, req[r].readAt)
        /\ resp' = [req |-> r, user |-> u, status |-> 200, hit |-> FALSE, data |-> data]
        /\ history' = [history EXCEPT ![u] = Append(@, [data |-> data, at |-> now])]
  /\ req' = [req EXCEPT ![r] = IdleReq]
  /\ UNCHANGED <<graded, takeLessons, activities, lessonGrades, generalGrades, now, garden, posts, posted>>
  /\ UNCHANGED solutionVars

\* and stores and returns the payload
DashStore(r) ==
  /\ req[r].pc = "store"
  /\ LET u == req[r].user
         data == Payload(req[r])
     IN /\ cache' = CacheSet(u, data, TTL, req[r].readAt)
        /\ resp' = [req |-> r, user |-> u, status |-> 200, hit |-> FALSE, data |-> data]
        /\ history' = [history EXCEPT ![u] = Append(@, [data |-> data, at |-> now])]
  /\ req' = [req EXCEPT ![r] = IdleReq]
  /\ UNCHANGED <<graded, takeLessons, activities, lessonGrades, generalGrades, now, garden, posts, posted>>
  /\ UNCHANGED solutionVars

\* ------------------------------------------ KidsViewSet.progress_garden
\* lessons_completed: the distinct lessons of the student's TakeLesson rows
LessonsCompleted(s) == Cardinality({t.lesson : t \in {x \in takeLessons : x.student = s}})

RECURSIVE SortDates(_)
\* date_list.sort(): the distinct days in ascending order
SortDates(days) ==
  IF days = {} THEN <<>>
  ELSE LET first == CHOOSE d \in days : \A e \in days : d <= e
       IN <<first>> \o SortDates(days \ {first})

RECURSIVE LongestScan(_, _, _, _)
\* LongestScan, had the loop no else branch: the streak is never reset
LongestScanNoReset(date_list, i, current_streak, longest_streak) ==
  Len(date_list)

\* the loop over date_list from position i on, with the loop's locals;
\* prev_day is date_list[i - 1], None at the first position
LongestScan(date_list, i, current_streak, longest_streak) ==
  IF i > Len(date_list) THEN longest_streak
  ELSE LET cur == IF i = 1 \/ date_list[i] - date_list[i - 1] = 1
                  THEN current_streak + 1 ELSE 1
       IN LongestScan(date_list, i + 1, cur,
                      IF cur > longest_streak THEN cur ELSE longest_streak)

\* longest_streak of the days of the student's TakeLesson rows
LongestStreak(s) ==
  LongestScan(SortDates({DayOf(t.created_at) : t \in {x \in takeLessons : x.student = s}}),
              1, 0, 0)

RowsOf(rows, s) == {g \in rows : g.student = s}

\* my_perf_score = my_lessons_taken + avg_score * 2.0, avg_score the mean of
\* lesson_scores + general_scores, 0.0 when there is none
MyPerfScore(s) ==
  LET n == Cardinality(RowsOf(lessonGrades, s)) + Cardinality(RowsOf(generalGrades, s))
      total == SumScores(RowsOf(lessonGrades, s)) + SumScores(RowsOf(generalGrades, s))
  IN IF n = 0 THEN Frac(LessonsCompleted(s), 1)
     ELSE Frac(LessonsCompleted(s) * n + 2 * total, n)

\* perf of _compute_rank for cohort member sid: ls and gs are the two
\* Avg('score') aggregates, avg their half sum when both exist
CohortPerf(sid) ==
  LET nl == Cardinality(RowsOf(lessonGrades, sid))
      ng == Cardinality(RowsOf(generalGrades, sid))
      sl == SumScores(RowsOf(lessonGrades, sid))
      sg == SumScores(RowsOf(generalGrades, sid))
      lessons == Cardinality({t \in takeLessons : t.student = sid})
  IN IF nl > 0 /\ ng > 0
       THEN Frac(lessons * nl * ng + sl * ng + sg * nl, nl * ng)
     ELSE IF nl > 0 THEN Frac(lessons * nl + 2 * sl, nl)
     ELSE IF ng > 0 THEN Frac(lessons * ng + 2 * sg, ng)
     ELSE Frac(lessons, 1)

\* the scope value of a student: school id, district id, county id (0: none)
ScopeValue(scope, s) ==
  IF StudentSchool(s) = 0 THEN 0
  ELSE IF scope = "school" THEN StudentSchool(s)
  ELSE IF scope = "district" THEN SchoolDistrict(StudentSchool(s))
  ELSE DistrictCounty(SchoolDistrict(StudentSchool(s)))

\* ScopeCohort, had the school scope been read from the Student table: every
\* student of the school, with a lesson taken or not
ScopeCohortEnrolled(scope, s) ==
  {p \in Students : /\ ScopeValue(scope, p) = ScopeValue(scope, s)
                    /\ (scope = "school" \/ \E t \in takeLessons : t.student = p)}

\* student_ids of agg: the students of the scope with a TakeLesson row
ScopeCohort(scope, s) ==
  {p \in Students : /\ ScopeValue(scope, p) = ScopeValue(scope, s)
                    /\ \E t \in takeLessons : t.student = p}

\* perf_scores of _compute_rank, as a function of the cohort
PerfScores(scope, s) == [p \in ScopeCohort(scope, s) |-> CohortPerf(p)]

\* ComputeRank, had the sort a second key, the student id ascending
ComputeRankById(scope, s) ==
  LET cohort == ScopeCohort(scope, s)
      ahead == Cardinality({p \in cohort :
                 \/ FracLt(CohortPerf(s), CohortPerf(p))
                 \/ FracEq(CohortPerf(s), CohortPerf(p)) /\ p < s})
  IN IF s \notin cohort
     THEN {[shown |-> FALSE, rank |-> 0, out_of |-> Cardinality(cohort)]}
     ELSE {[shown |-> TRUE, rank |-> ahead + 1, out_of |-> Cardinality(cohort)]}

\* _compute_rank: the (rank, total) pairs it may return.  The list is sorted
\* by perf only, from whatever order the aggregate query returned, so a
\* student may land on any position among the members with the same perf.
ComputeRank(scope, s) ==
  LET cohort == ScopeCohort(scope, s)
      above == Cardinality({p \in cohort : FracLt(CohortPerf(s), CohortPerf(p))})
      level == Cardinality({p \in cohort : FracEq(CohortPerf(s), CohortPerf(p))})
  IN IF s \notin cohort
     THEN {[shown |-> FALSE, rank |-> 0, out_of |-> Cardinality(cohort)]}
     ELSE {[shown |-> TRUE, rank |-> above + i, out_of |-> Cardinality(cohort)] :
             i \in 1..level}

\* ScopeRank, had the handler ranked without looking at the scope value
ScopeRankUnguarded(scope, s) ==
  {IF x.shown THEN x ELSE NoRank : x \in ComputeRank(scope, s)}

\* school_rank / district_rank / county_rank: None without a scope value or
\* without a rank
ScopeRank(scope, s) ==
  IF ScopeValue(scope, s) = 0 THEN {NoRank}
  ELSE {IF x.shown THEN x ELSE NoRank : x \in ComputeRank(scope, s)}

\* the scores the ranking of a scope was computed from (none without a scope)
ScopeScores(scope, s) ==
  IF ScopeValue(scope, s) = 0 THEN <<>> ELSE PerfScores(scope, s)

\* SubjectPercent, had it reported the share of the lessons not yet taken
SubjectPercentLeft(s, sub) ==
  LET total == TotalBySubject(sub)
      taken == Cardinality({t.lesson : t \in {x \in takeLessons :
                              x.student = s /\ LessonSubject(x.lesson) = sub}})
  IN IF total # 0 THEN PyRound((total - taken) * 100, total) ELSE 0

\* percent_complete of a subject
SubjectPercent(s, sub) ==
  LET total == TotalBySubject(sub)
      taken == Cardinality({t.lesson : t \in {x \in takeLessons :
                              x.student = s /\ LessonSubject(x.lesson) = sub}})
  IN Percent(taken, total)

\* GET subjects/mysubjects (SubjectViewSet.mysubjects): progress_percent of
\* the subjects the student has taken a lesson of
MySubjects(s) ==
  LET subject_ids == {LessonSubject(t.lesson) : t \in {x \in takeLessons : x.student = s}}
  IN [sub \in subject_ids |->
        LET total == TotalBySubject(sub)
            taken == Cardinality({t.lesson : t \in {x \in takeLessons :
                                    x.student = s /\ LessonSubject(x.lesson) = sub}})
        IN Percent(taken, total)]

\* GET progress-garden: the response, with the handler's locals
\* my_perf_score and perf_scores kept beside it
ProgressGarden(s) ==
  /\ IF ~HasStudent(s)
     THEN garden' = [user |-> s, status |-> 403, data |-> ProfileRequired]
     ELSE
     \E rs \in ScopeRank("school", s) :
     \E rd \in ScopeRank("district", s) :
     \E rc \in ScopeRank("county", s) :
       garden' = [user |-> s,
                  status |-> 200,
                  lessons_completed |-> LessonsCompleted(s),
                  longest_streak |-> LongestStreak(s),
                  subjects |-> [sub \in SubjectsOf(s) |-> SubjectPercent(s, sub)],
                  rank_in_school |-> rs,
                  rank_in_district |-> rd,
                  rank_in_county |-> rc,
                  my_perf_score |-> MyPerfScore(s),
                  perf_scores |-> [scope \in {"school", "district", "county"} |->
                                     ScopeScores(scope, s)]]
  /\ UNCHANGED <<graded, takeLessons, activities, lessonGrades, generalGrades, now, cache,
                 req, resp, history, posts, posted>>
  /\ UNCHANGED solutionVars

\* the response has been delivered
GardenDone ==
  /\ garden # NoGarden
  /\ garden' = NoGarden
  /\ UNCHANGED <<graded, takeLessons, activities, lessonGrades, generalGrades, now, cache,
                 req, resp, history, posts, posted>>
  /\ UNCHANGED solutionVars

\* ------------------------------------------ KidsViewSet.submit_solution
\* AssessmentSolution.objects.filter(assessment=assessment, student=student)
SolutionsOf(a, s) == {x \in solutions : x.assessment = a /\ x.student = s}

\* the id the table gives the next row (no row is ever deleted)
NextSolutionId == Cardinality(solutions) + 1

\* POST submit-solution with general_id = a, first half: the profile check
\* and the get of get_or_create.  A row that is there is updated and saved;
\* several rows make get raise MultipleObjectsReturned, which ends the
\* request with 500; no row sends the request on to the create.
SubmitGet(q, u, a, text) ==
  /\ submits[q].pc = "idle"
  /\ IF ~HasStudent(u)
     THEN /\ submitted' = [status |-> 403, student |-> u, assessment |-> a,
                           solution_id |-> 0]
          /\ UNCHANGED <<solutions, submits>>
     ELSE IF SolutionsOf(a, u) = {}
     THEN /\ submits' = [submits EXCEPT ![q] =
                           [pc |-> "create", student |-> u, assessment |-> a,
                            solution |-> text]]
          /\ UNCHANGED <<solutions, submitted>>
     ELSE IF Cardinality(SolutionsOf(a, u)) = 1
     THEN LET solution_obj == CHOOSE x \in SolutionsOf(a, u) : TRUE
          IN /\ solutions' = (solutions \ {solution_obj}) \cup
                                {[solution_obj EXCEPT !.solution = text]}
             /\ submitted' = [status |-> 200, student |-> u, assessment |-> a,
                              solution_id |-> solution_obj.id]
             /\ UNCHANGED submits
     ELSE /\ submitted' = [status |-> 500, student |-> u, assessment |-> a,
                           solution_id |-> 0]
          /\ UNCHANGED <<solutions, submits>>
  /\ UNCHANGED <<takeLessons, activities, lessonGrades, generalGrades, now, cache,
                 req, resp, history, garden, posts, posted, graded, review>>

\* submit-solution, second half: the create of get_or_create.  The table has
\* no unique constraint on (assessment, student), so the insert succeeds
\* whatever a concurrent request has inserted since the get.
SubmitCreate(q) ==
  /\ submits[q].pc = "create"
  /\ solutions' = solutions \cup
       {[id |-> NextSolutionId, assessment |-> submits[q].assessment,
         student |-> submits[q].student, solution |-> submits[q].solution,
         submitted_at |-> now]}
  /\ submitted' = [status |-> 200, student |-> submits[q].student,
                   assessment |-> submits[q].assessment,
                   solution_id |-> NextSolutionId]
  /\ submits' = [submits EXCEPT ![q] = IdleSubmit]
  /\ UNCHANGED <<takeLessons, activities, lessonGrades, generalGrades, now, cache,
                 req, resp, history, garden, posts, posted, graded, review>>

\* --------------------------------------------- TeacherViewSet.dashboard
\* student_ids: the approved students of the teacher's school
StudentIds ==
  {s \in Students : StudentSchool(s) = TeacherSchool /\ StudentStatus(s) = "APPROVED"}

\* solutions: the rows for the teacher's assessments from those students
TeacherSolutions ==
  {x \in solutions : GAGivenBy(x.assessment) = Teacher /\ x.student \in StudentIds}

\* grade_by_solution_id: the teacher's grades that are linked to a solution,
\* by the id of the solution
GradeBySolutionId ==
  {GradeSolutionId(g) : g \in {x \in generalGrades :
       /\ GAGivenBy(x.assessment) = Teacher
       /\ x.student \in StudentIds
       /\ GradeSolutionId(x) # 0}}

\* .order_by('assessment__due_at', 'submitted_at'): x may come before y
ComesFirst(x, y) ==
  \/ GADueAt(x.assessment) < GADueAt(y.assessment)
  \/ GADueAt(x.assessment) = GADueAt(y.assessment) /\ x.submitted_at <= y.submitted_at

RECURSIVE Ordered(_)
\* the orders the query may return the rows in (rows equal on both keys
\* come in an order the database chooses)
Ordered(rows) ==
  IF rows = {} THEN {<<>>}
  ELSE UNION {{<<x>> \o rest : rest \in Ordered(rows \ {x})} :
                x \in {y \in rows : \A z \in rows : ComesFirst(y, z)}}

RECURSIVE ReviewLoop(_, _, _, _)
\* for sol in solutions: from position i on, with the loop's locals; the
\* loop ends at the fifth pending solution
ReviewLoop(sols, i, graded_count, pending_submissions) ==
  IF i > Len(sols) \/ Len(pending_submissions) >= PendingCap
  THEN [graded_count |-> graded_count,
        pending_count |-> Len(pending_submissions),
        pending_submissions |-> pending_submissions]
  ELSE IF sols[i].id \in GradeBySolutionId
  THEN ReviewLoop(sols, i + 1, graded_count + 1, pending_submissions)
  ELSE ReviewLoop(sols, i + 1, graded_count, Append(pending_submissions, sols[i].id))

\* GET teacher dashboard, called by the teacher: the summary cards
\* pending_review and completion_rate (in hundredths of a percent), and the
\* pending_submissions list
TeacherDashboard ==
  /\ \E sols \in Ordered(TeacherSolutions) :
       LET out == ReviewLoop(sols, 1, 0, <<>>)
           total_review == out.graded_count + out.pending_count
       IN review' = [status |-> 200,
                     pending_review |-> out.pending_count,
                     completion_rate |->
                       IF total_review # 0
                       THEN PyRound(out.graded_count * 100 * 100, total_review)
                       ELSE 0,
                     pending_submissions |-> out.pending_submissions]
  /\ UNCHANGED <<takeLessons, activities, lessonGrades, generalGrades, now, cache,
                 req, resp, history, garden, posts, posted, graded, solutions,
                 submits, submitted>>

\* the response has been delivered
ReviewDone ==
  /\ review # NoReview
  /\ review' = NoReview
  /\ UNCHANGED <<takeLessons, activities, lessonGrades, generalGrades, now, cache,
                 req, resp, history, garden, posts, posted, graded, solutions,
                 submits, submitted>>

\* ------------------------------------------------------- specifications
\* One student's dashboard under concurrent requests, writes and time: the
\* student takes lesson 1 or is graded in lesson assessment 1 while requests
\* of the same student are in flight.
Writes ==
  \/ TakeLesson(1, 1)
  \/ GradeLesson(1, 1, MaxMarks)

Dashboard ==
  \/ \E r \in Reqs : DashLookup(r, 1)
  \/ \E r \in Reqs : DashReadCourses(r)
  \/ \E r \in Reqs : DashReadRanking(r)
  \/ \E r \in Reqs : DashStore(r)

Next == Writes \/ Dashboard \/ Tick

Spec == Init /\ [][Next]_vars

\* The ranking of a student within a cohort: the tables start with a cohort
\* of other students, the callers add rows, and the first caller asks for the
\* dashboard.
CallerTakeRows == Cardinality(CallerTakes)
CallerGeneralRows == Cardinality(CallerRows(generalGrades))
HasRow(rows, a, s) == \E g \in rows : g.assessment = a /\ g.student = s

CohortWrites ==
  \/ \E l \in Lessons :
       CallerTakeRows < MaxTakes /\ TakeLesson(1, l)
  \/ \E sc \in ScoreInputs : GradeLesson(1, 1, sc)
  \/ \E s \in {1, NumCallers}, sc \in ScoreInputs :
       (HasRow(generalGrades, 1, s) \/ CallerGeneralRows < MaxGradeRows)
       /\ GradeGeneral(1, s, sc)

CohortDashboard ==
  \/ DashLookup(1, 1)
  \/ DashReadCourses(1)
  \/ DashReadRanking(1)
  \/ DashStore(1)

NextCohort == CohortWrites \/ CohortDashboard

SpecCohort == InitCohort /\ [][NextCohort]_vars

\* The progress garden of a student within a cohort: the callers add rows
\* between progress-garden requests.
GardenWrites ==
  \/ \E in \in {<<1, l>> : l \in Lessons} \cup {<<NumCallers, 1>>} :
       CallerTakeRows < MaxTakes /\ TakeLesson(in[1], in[2])
  \/ \E sc \in ScoreInputs : GradeLesson(1, 1, sc)
  \/ \E a \in GeneralAssessments, sc \in ScoreInputs :
       (HasRow(generalGrades, a, 1) \/ CallerGeneralRows < MaxGradeRows)
       /\ GradeGeneral(a, 1, sc)

NextGarden ==
  \/ garden = NoGarden /\ GardenWrites
  \/ \E s \in Callers : garden = NoGarden /\ ProgressGarden(s)
  \/ GardenDone

SpecGarden == InitCohort /\ [][NextGarden]_vars

\* The dashboard over the days: the callers take lessons on one day or
\* another and ask for the dashboard.
StreakWrites ==
  \E in \in {<<1, l>> : l \in Lessons} \cup {<<NumCallers - 1, NumSubjects - 1>>} :
    CallerTakeRows < MaxTakes /\ TakeLesson(in[1], in[2])

StreakDashboard ==
  \/ \E u \in Callers : DashLookup(1, u)
  \/ DashReadCourses(1)
  \/ DashReadRanking(1)
  \/ DashStore(1)

NextStreak ==
  \/ StreakWrites
  \/ StreakDashboard
  \/ DayOf(now) < StreakDays /\ NextDay

SpecStreak == Init /\ [][NextStreak]_vars

\* The course counts of the dashboard: the callers take lessons and ask for
\* the dashboard, the first caller (two subjects with lessons), the caller
\* of the grade with a subject without lessons and the caller of the grade
\* without subjects.
NextCourses ==
  \/ StreakWrites
  \/ \E u \in {1, NumCallers - 1, NumCallers} : DashLookup(1, u)
  \/ DashReadCourses(1)
  \/ DashReadRanking(1)
  \/ DashStore(1)

SpecCourses == Init /\ [][NextCourses]_vars

\* The scope ranks within a small cohort: the first caller and the caller
\* without a school take lessons, the first caller is graded, and both look
\* at the progress garden.
RankSizes == {0, 1, NumSchools + 1}

InitRanks ==
  /\ \E k \in RankSizes :
       /\ takeLessons = CrowdTakes(k)
       /\ generalGrades = CrowdGrades(k)
  /\ lessonGrades = {}
  /\ solutions = {}
  /\ now = TickStep
  /\ InitRest

RankWrites ==
  \/ \E in \in {<<1, l>> : l \in Lessons} \cup {<<NumCallers, 1>>} :
       CallerTakeRows < MaxTakes /\ TakeLesson(in[1], in[2])
  \/ \E sc \in ScoreInputs : GradeLesson(1, 1, sc)
  \/ \E sc \in ScoreInputs : GradeGeneral(1, 1, sc)

NextRanks ==
  \/ garden = NoGarden /\ RankWrites
  \/ \E s \in {1, NumCallers} : garden = NoGarden /\ ProgressGarden(s)
  \/ GardenDone

SpecRanks == InitRanks /\ [][NextRanks]_vars

\* The two grade tables: a teacher grades and regrades the first caller in
\* the first and the last assessment of each kind, and the second caller in
\* the first lesson assessment, while the clock runs.
NextGrades ==
  \/ \E a \in {1, NumLessonAssessments}, sc \in ScoreInputs : GradeLesson(a, 1, sc)
  \/ \E sc \in ScoreInputs : GradeLesson(1, 2, sc)
  \/ \E a \in {1, NumGeneralAssessments}, sc \in ScoreInputs : GradeGeneral(a, 1, sc)
  \/ Tick

SpecGrades == Init /\ [][NextGrades]_vars

\* The ledger under concurrent take-lesson requests: the first caller posts
\* the lessons of the first subject, the second caller the first lesson,
\* while the clock runs and the first caller looks at the progress garden.
LedgerInputs == {<<1, l>> : l \in {x \in Lessons : LessonSubject(x) = 1}} \cup {<<2, 1>>}

NextLedger ==
  \/ \E q \in Posts, in \in LedgerInputs :
       garden = NoGarden /\ TakeLessonValidate(q, in[1], in[2])
  \/ \E q \in Posts : garden = NoGarden /\ TakeLessonSave(q)
  \/ garden = NoGarden /\ Tick
  \/ garden = NoGarden /\ ProgressGarden(1)
  \/ GardenDone

SpecLedger == Init /\ [][NextLedger]_vars

\* The days of a student's lessons: the first caller takes lessons on one
\* day or another and looks at the progress garden.
NextDays ==
  \/ \E l \in Lessons :
       garden = NoGarden /\ TakeLesson(1, l)
  \/ garden = NoGarden /\ NextDay
  \/ garden = NoGarden /\ ProgressGarden(1)
  \/ GardenDone

SpecDays == Init /\ [][NextDays]_vars

\* The grading actions on any score a request may carry: a teacher grades
\* and regrades the first two callers in lesson assessment 1 and the first
\* caller in general assessment 1.
NextMarking ==
  \/ \E s \in {1, 2}, sc \in ScoreRequests : GradeLesson(1, s, sc)
  \/ \E sc \in ScoreRequests : GradeGeneral(1, 1, sc)

SpecMarking == Init /\ [][NextMarking]_vars

\* The student views asked for by a user without a Student profile: the
\* first caller takes lessons, and the first caller and a teacher ask for
\* the dashboard and the progress garden.
NextProfile ==
  \/ \E l \in Lessons : CallerTakeRows < MaxTakes /\ TakeLesson(1, l)
  \/ \E u \in {1, Teacher} : DashLookup(1, u)
  \/ DashReadCourses(1)
  \/ DashReadRanking(1)
  \/ DashStore(1)
  \/ \E u \in {1, Teacher} : garden = NoGarden /\ ProgressGarden(u)
  \/ GardenDone

SpecProfile == Init /\ [][NextProfile]_vars

\* The completion percentages: the callers take lessons, the first two ask
\* for the dashboard, and all three look at the progress garden; the second
\* caller's grade has a subject without lessons, the third caller's grade
\* has no subject.
NextPercent ==
  \/ garden = NoGarden /\ StreakWrites
  \/ \E u \in {1, NumCallers - 1} : garden = NoGarden /\ DashLookup(1, u)
  \/ garden = NoGarden /\ DashReadCourses(1)
  \/ garden = NoGarden /\ DashReadRanking(1)
  \/ garden = NoGarden /\ DashStore(1)
  \/ \E u \in Callers : garden = NoGarden /\ ProgressGarden(u)
  \/ GardenDone

SpecPercent == Init /\ [][NextPercent]_vars

\* Two students' dashboards side by side: the first caller and the caller
\* of the other grade take lessons and ask for the dashboard, each with one
\* request in flight at a time, while the clock runs.
NextShared ==
  \/ StreakWrites
  \/ DashLookup(1, 1)
  \/ DashLookup(2, NumCallers - 1)
  \/ \E r \in {1, 2} : DashReadCourses(r)
  \/ \E r \in {1, 2} : DashReadRanking(r)
  \/ \E r \in {1, 2} : DashStore(r)
  \/ Tick

SpecShared == Init /\ [][NextShared]_vars

\* Submissions under concurrent requests: the first two callers submit and
\* resubmit solutions for general assessment 1.
NextSubmit ==
  \/ \E q \in Submits, u \in {1, 2}, text \in Texts : SubmitGet(q, u, 1, text)
  \/ \E q \in Submits : SubmitCreate(q)

SpecSubmit == Init /\ [][NextSubmit]_vars

\* The teacher's review desk: the solutions of some students of the school
\* may be waiting already, the first caller submits solutions, the teacher
\* grades the first caller and looks at the dashboard.
SeedSizes == {0, PendingCap + 1}
SchoolCrowd == {s \in CrowdOf(MaxCrowd) : StudentSchool(s) = TeacherSchool}
\* one solution for general assessment 1 from each of the first k of them,
\* submitted one after the other
SeedSolutions(k) ==
  {[id |-> Cardinality({p \in SchoolCrowd : p <= s}), assessment |-> 1,
    student |-> s, solution |-> "final",
    submitted_at |-> Cardinality({p \in SchoolCrowd : p <= s})] :
     s \in {x \in SchoolCrowd : Cardinality({p \in SchoolCrowd : p < x}) < k}}

InitReview ==
  /\ takeLessons = {}
  /\ lessonGrades = {}
  /\ generalGrades = {}
  /\ \E k \in SeedSizes : solutions = SeedSolutions(k)
  /\ now = TickStep
  /\ InitRest

NextReview ==
  \/ \E a \in GeneralAssessments, text \in Texts :
       review = NoReview /\ SubmitGet(1, 1, a, text)
  \/ review = NoReview /\ SubmitCreate(1)
  \/ \E a \in GeneralAssessments, sc \in ScoreInputs :
       review = NoReview /\ GradeGeneral(a, 1, sc)
  \/ review = NoReview /\ TeacherDashboard
  \/ ReviewDone

SpecReview == InitReview /\ [][NextReview]_vars

TypeOK == now \in 0..(MaxTime + MaxDays * DayLen)

\* ------------------------------------------------------------ properties
\* the steps of a dashboard request, as seen from outside
HitStep == resp' # resp /\ resp'.hit
MissStep(r) == req[r].pc = "idle" /\ req'[r].pc = "courses"
StoreStep(r) == req[r].pc = "store" /\ req'[r].pc = "idle"
\* the stores of user u whose TTL has not run out
LiveStores(u) == {history[u][i] : i \in 1..Len(history[u])}
\* the payload a request would compute from the tables as they are now
StaleFor(u, data) ==
  \/ data.quick_stats.in_progress_courses = 0 /\ TakenQs(u) # {}
  \/ ~data.student_ranking.show /\ LessonTopWhere(u) # {}

\* C1 as stated: once a payload is stored at time t, every request that looks
\* the cache up later and before t + TTL returns exactly that payload.
C1_Original ==
  [][/\ HitStep => \A e \in LiveStores(resp'.user) : resp'.data = e.data
     /\ \A r \in Reqs : MissStep(r) => LiveStores(req'[r].user) = {}]_vars

\* C1 (amended): while a stored payload's TTL has not run out, every later
\* request of the student is answered from the cache, with the payload stored
\* last for that student, whatever has been written to the tables since.
C1_HitReturnsLastStored ==
  [][/\ HitStep => /\ history[resp'.user] # <<>>
                   /\ resp'.data = history[resp'.user][Len(history[resp'.user])].data
     /\ \A r \in Reqs : MissStep(r) => LiveStores(req'[r].user) = {}]_vars

\* a request was answered from the cache although the tables have changed
C1_Witness == resp.hit /\ resp.user = 1 /\ StaleFor(1, resp.data)

\* C2: a take-lesson or grade write leaves every cache entry as it is; an
\* entry changes only by a store of that student's own missed request, or by
\* its TTL running out.
C2_WritesKeepCache ==
  [][/\ (takeLessons' # takeLessons \/ lessonGrades' # lessonGrades
           \/ generalGrades' # generalGrades) => cache' = cache
     /\ \A u \in Callers : cache'[u] # cache[u] =>
          \/ \E r \in Reqs : /\ StoreStep(r)
                             /\ req[r].user = u
                             /\ cache'[u].data = Payload(req[r])
          \/ /\ now' > now
             /\ cache[u].present
             /\ cache[u].expires <= now'
             /\ cache'[u] = NoEntry]_vars

\* an entry that a later write has made stale is still in the cache
C2_Witness == cache[1].present /\ StaleFor(1, cache[1].data)

\* C3: concurrent misses do not wait for each other: every request in flight
\* can take its next step whatever the others do, a request that stores
\* returns the payload it computed itself, and the cache then holds it.
C3_NoWait ==
  \A r \in Reqs :
    /\ req[r].pc = "idle" => ENABLED DashLookup(r, 1)
    /\ req[r].pc = "courses" => ENABLED DashReadCourses(r)
    /\ req[r].pc = "ranking" => ENABLED DashReadRanking(r)
    /\ req[r].pc = "store" => ENABLED DashStore(r)

C3_LastWriterWins ==
  /\ []C3_NoWait
  /\ [][\A r \in Reqs : StoreStep(r) =>
          /\ resp' = [req |-> r, user |-> req[r].user, status |-> 200, hit |-> FALSE,
                      data |-> Payload(req[r])]
          /\ cache'[req[r].user].present
          /\ cache'[req[r].user].data = Payload(req[r])]_vars

\* two requests of one student both missed and both stored, with different
\* payloads, and the cache holds the second one
C3_Witness ==
  /\ Len(history[1]) = 2
  /\ history[1][1].data # history[1][2].data
  /\ cache[1].present
  /\ cache[1].data = history[1][2].data
  /\ resp = [req |-> resp.req, user |-> 1, status |-> 200, hit |-> FALSE,
             data |-> history[1][2].data]

\* C4 as stated: whatever a request returns was computed from data read no
\* more than TTL seconds before the response.
C4_Original ==
  [][/\ HitStep => now - cache[resp'.user].readAt <= TTL
     /\ \A r \in Reqs : StoreStep(r) => now - req[r].readAt <= TTL]_vars

\* C4 (amended): whatever a request returns from the cache was stored less
\* than TTL seconds before the response, by a request that had read its data
\* before it stored; the TTL runs from the store, not from the reads.
C4_StoredWithinTTL ==
  [][HitStep =>
       /\ cache[resp'.user].present
       /\ resp'.data = cache[resp'.user].data
       /\ cache[resp'.user].expires - TTL <= now
       /\ now < cache[resp'.user].expires
       /\ cache[resp'.user].readAt <= cache[resp'.user].expires - TTL]_vars

\* a cached payload is returned more than TTL seconds after its data was read
C4_Witness ==
  /\ resp.hit
  /\ cache[resp.user].present
  /\ cache[resp.user].data = resp.data
  /\ now - cache[resp.user].readAt > TTL

\* C5: the score the scope-population ranking sorts a cohort member on is
\* distinct lessons taken + 2 * the mean over all that student's grades of
\* both kinds pooled, the value progress_garden computes as my_perf_score.
C5_OneFormula ==
  garden.user # 0 =>
    \A scope \in {"school", "district", "county"} :
      \A p \in DOMAIN garden.perf_scores[scope] :
        /\ FracEq(garden.perf_scores[scope][p], MyPerfScore(p))
        /\ p = garden.user =>
             FracEq(garden.perf_scores[scope][p], garden.my_perf_score)

\* the ranking step of a dashboard request: it reads the tables as they are
RankingStep(r) == req[r].pc = "ranking" /\ req'[r].pc = "store"

\* the dense rank of student s among all the grades recorded for assessment a
CohortRank(kind, a, s) ==
  LET rows == IF kind = "lesson" THEN lessonGrades ELSE generalGrades
      own == CHOOSE g \in rows : g.assessment = a /\ g.student = s
  IN 1 + Cardinality({h.score : h \in {x \in rows :
                                         x.assessment = a /\ x.score > own.score}})

\* the student's grades in the assessments of the student's grade level, each
\* with the student's dense rank in the assessment's cohort
Standing(s) ==
  {[kind |-> "lesson", assessment |-> g.assessment,
    rank |-> CohortRank("lesson", g.assessment, s), created_at |-> g.created_at] :
      g \in LessonTopWhere(s)}
  \cup
  {[kind |-> "general", assessment |-> g.assessment,
    rank |-> CohortRank("general", g.assessment, s), created_at |-> g.created_at] :
      g \in GeneralTopWhere(s)}

Qualifying(s) == {x \in Standing(s) : x.rank <= TopN}

\* the distinct lessons a student has taken, all of them / those of the
\* student's own grade level
DistinctLessons(p) == Cardinality({t.lesson : t \in {x \in takeLessons : x.student = p}})
GradeLessons(p) ==
  Cardinality({t.lesson : t \in {x \in takeLessons :
     x.student = p /\ SubjectGrade(LessonSubject(x.lesson)) = StudentGrade(p)}})
PeersOf(s) == {p \in Students \ {s} : StudentGrade(p) = StudentGrade(s)}

\* C6: the rank the dashboard gives a student in an assessment is 1 + the
\* number of distinct scores above the student's among all grades recorded
\* for that assessment.
C6_DenseRankOverCohort ==
  [][\A r \in Reqs : (RankingStep(r) /\ req'[r].best # NoBest) =>
       req'[r].best.rank =
         CohortRank(req'[r].best.kind, req'[r].best.assessment, req[r].user)]_vars

\* C7: with qualifying ranks in several assessments the badge reports the
\* lowest of them, and of the assessments on that rank the one graded most
\* recently is selected, of whichever kind.
C7_LowestThenLatest ==
  [][\A r \in Reqs : (RankingStep(r) /\ Cardinality(Qualifying(req[r].user)) >= 2) =>
       LET q == Qualifying(req[r].user)
           lowest == {x \in q : \A y \in q : x.rank <= y.rank}
           latest == {x \in lowest : \A y \in lowest : x.created_at >= y.created_at}
       IN /\ req'[r].student_ranking.show
          /\ \E x \in latest : /\ req'[r].student_ranking.rank = x.rank
                               /\ req'[r].best.kind = x.kind
                               /\ req'[r].best.assessment = x.assessment]_vars

\* C8: the engagement badge appears only without any qualifying assessment
\* rank, and with one the badge is an assessment badge that carries a
\* qualifying rank of the student.
C8_EngagementOnlyAsFallback ==
  [][\A r \in Reqs : RankingStep(r) =>
       LET q == Qualifying(req[r].user)
           badge == req'[r].student_ranking
       IN /\ badge.type = "engagement_top20" => q = {}
          /\ q # {} => /\ badge.type = "assessment_top20"
                       /\ \E x \in q : badge.rank = x.rank]_vars

\* C9: the engagement rank is 1 + the number of same-grade peers with
\* strictly more distinct lessons than the student (counting, for everybody,
\* either all lessons or the lessons of the own grade level).
C9_EngagementRank ==
  [][\A r \in Reqs :
       (RankingStep(r) /\ req'[r].student_ranking.type = "engagement_top20") =>
         LET s == req[r].user
         IN \/ req'[r].student_ranking.rank =
                 1 + Cardinality({p \in PeersOf(s) : DistinctLessons(p) > DistinctLessons(s)})
            \/ req'[r].student_ranking.rank =
                 1 + Cardinality({p \in PeersOf(s) : GradeLessons(p) > GradeLessons(s)})]_vars

\* C10: a badge is shown only for a rank in 1..TopN: an assessment badge only
\* for an assessment in which the student's dense rank is at most TopN, an
\* engagement badge only for an engagement rank of at most TopN, and never
\* for a student without a lesson taken.
C10_BadgeOnlyForTopN ==
  [][\A r \in Reqs : RankingStep(r) =>
       LET s == req[r].user
           badge == req'[r].student_ranking
       IN /\ badge.show => badge.rank \in 1..TopN
          /\ badge.type = "assessment_top20" =>
               CohortRank(req'[r].best.kind, req'[r].best.assessment, s) <= TopN
          /\ badge.type = "engagement_top20" =>
               /\ DistinctLessons(s) > 0
               /\ 1 + Cardinality({p \in PeersOf(s) :
                        DistinctLessons(p) > DistinctLessons(s)}) <= TopN]_vars

\* the scopes of the progress garden and the rank a response gives for each
Scopes == {"school", "district", "county"}
RankIn(g, scope) ==
  IF scope = "school" THEN g.rank_in_school
  ELSE IF scope = "district" THEN g.rank_in_district
  ELSE g.rank_in_county
\* the students sharing the scope value of s who have taken a lesson
ActiveIn(scope, s) ==
  {p \in Students : /\ ScopeValue(scope, p) = ScopeValue(scope, s)
                    /\ \E t \in takeLessons : t.student = p}
GardenStep == garden = NoGarden /\ garden' # NoGarden

\* C11: for each scope with a rank, out_of is the number of students of the
\* scope with a lesson taken, and rank is the student's position among them
\* by performance score (lessons taken + 2 * the mean of all grades)
\* descending: 1 <= rank <= out_of, every member with a higher score is ahead
\* and no member with a lower score is.
C11_PositionByScore ==
  garden.user # 0 =>
    \A scope \in Scopes :
      LET r == RankIn(garden, scope)
          s == garden.user
          cohort == ActiveIn(scope, s)
          higher == {p \in cohort : FracLt(MyPerfScore(s), MyPerfScore(p))}
          lower == {p \in cohort : FracLt(MyPerfScore(p), MyPerfScore(s))}
      IN r # NoRank =>
           /\ r.out_of = Cardinality(cohort)
           /\ 1 <= r.rank
           /\ r.rank <= r.out_of
           /\ r.rank > Cardinality(higher)
           /\ r.rank <= r.out_of - Cardinality(lower)

\* the positions a member of a scope's cohort shares with the members of
\* equal score
TiedPositions(scope, s) ==
  LET cohort == ActiveIn(scope, s)
      above == Cardinality({p \in cohort : FracLt(CohortPerf(s), CohortPerf(p))})
      level == Cardinality({p \in cohort : FracEq(CohortPerf(s), CohortPerf(p))})
  IN (above + 1)..(above + level)

C12_AnyTiedPosition ==
  garden = NoGarden =>
    \A s \in Callers :
      (StudentSchool(s) # 0 /\ s \in ActiveIn("school", s)) =>
        /\ Cardinality(TiedPositions("school", s)) >= 2 =>
             \A i \in TiedPositions("school", s) :
               ENABLED (ProgressGarden(s) /\ garden'.rank_in_school.rank = i)
        /\ Cardinality(TiedPositions("district", s)) >= 2 =>
             \A i \in TiedPositions("district", s) :
               ENABLED (ProgressGarden(s) /\ garden'.rank_in_district.rank = i)
        /\ Cardinality(TiedPositions("county", s)) >= 2 =>
             \A i \in TiedPositions("county", s) :
               ENABLED (ProgressGarden(s) /\ garden'.rank_in_county.rank = i)

\* C12: the scope-population ranking has no secondary key: a student may be
\* reported on any of the positions shared with the cohort members of equal
\* score, and on no other, so two computations over the same data can report
\* different ranks for a tied student.
C12_TiesInReturnedOrder ==
  /\ []C12_AnyTiedPosition
  /\ [][GardenStep =>
          \A scope \in Scopes :
            RankIn(garden', scope) # NoRank =>
              RankIn(garden', scope).rank \in TiedPositions(scope, garden'.user)]_vars

\* the first caller shares a score with another member of the school's cohort
\* and is reported behind that member
C12_Witness ==
  /\ garden.user = 1
  /\ garden.rank_in_school # NoRank
  /\ Cardinality(TiedPositions("school", 1)) >= 2
  /\ garden.rank_in_school.rank \in TiedPositions("school", 1)
  /\ garden.rank_in_school.rank - 1 \in TiedPositions("school", 1)

\* C13: a progress-garden request of a student without a school succeeds
\* with all three ranks null, and a student who has taken no lesson gets null
\* for every scope.
C13_NoCohortNoRank ==
  garden.user # 0 =>
    /\ garden.status = 200
    /\ StudentSchool(garden.user) = 0 =>
         \A scope \in Scopes : RankIn(garden, scope) = NoRank
    /\ \A scope \in Scopes :
         garden.user \notin ActiveIn(scope, garden.user) =>
           RankIn(garden, scope) = NoRank

\* a student without a school, who has taken a lesson, got a response without
\* any rank
C13_Witness ==
  /\ garden.user = NumCallers
  /\ StudentSchool(NumCallers) = 0
  /\ \E t \in takeLessons : t.student = NumCallers
  /\ garden.status = 200
  /\ \A scope \in Scopes : RankIn(garden, scope) = NoRank

\* the calendar days on which a student has a lesson-taken event
ActiveDays(s) == {DayOf(t.created_at) : t \in {x \in takeLessons : x.student = s}}
\* n consecutive days of the set, the last (first) of them being day d
RunEndingAt(days, d, n) == \A k \in 0..(n - 1) : d - k \in days
RunFrom(days, d, n) == \A k \in 0..(n - 1) : d + k \in days

\* C14: current_study_streak_days is the number of consecutive calendar days
\* ending at the day of the request on each of which the student has a
\* lesson-taken event, 0 when that day has none.
C14_CurrentStreak ==
  [][\A r \in Reqs : RankingStep(r) =>
       LET days == ActiveDays(req[r].user)
           today == DayOf(req[r].readAt)
           n == req'[r].cur
       IN /\ n >= 0
          /\ RunEndingAt(days, today, n)
          /\ today - n \notin days]_vars

\* C15: longest_streak is the length of the longest run of consecutive
\* calendar days among the student's active days, 0 without any.
C15_LongestStreak ==
  garden.user # 0 =>
    LET days == ActiveDays(garden.user)
        n == garden.longest_streak
    IN /\ n >= 0
       /\ n = 0 => days = {}
       /\ n > 0 => \E d \in days : RunFrom(days, d, n)
       /\ ~ \E d \in days : RunFrom(days, d, n + 1)

\* the active days are {d, d+1, d+2, d+5} and the longest streak is 3
C15_Witness ==
  /\ garden.user = 1
  /\ \E d \in 0..MaxDays : ActiveDays(1) = {d, d + 1, d + 2, d + 5}
  /\ garden.longest_streak = 3

\* the steps of a take-lesson request, as seen from outside
TakeAccepted == posted' # posted /\ posted'.status = 201
TakeRefused == posted' # posted /\ posted'.status # 201
\* the distinct lessons of a subject a student has taken
TakenOf(s, sub) ==
  {t.lesson : t \in {x \in takeLessons : x.student = s /\ LessonSubject(x.lesson) = sub}}

\* C16: taking one more distinct lesson never lowers a completion percent of
\* the student, in the progress garden or in the list of the student's
\* subjects, and a repeated take of a lesson leaves every percent as it is.
C16_PercentMonotone ==
  [][\A s \in Callers :
       /\ \A sub \in Subjects : SubjectPercent(s, sub)' >= SubjectPercent(s, sub)
       /\ \A sub \in DOMAIN MySubjects(s) :
            /\ sub \in DOMAIN MySubjects(s)'
            /\ MySubjects(s)'[sub] >= MySubjects(s)[sub]
       /\ TakeRefused =>
            /\ \A sub \in Subjects : SubjectPercent(s, sub)' = SubjectPercent(s, sub)
            /\ MySubjects(s)' = MySubjects(s)
       /\ GardenStep =>
            \A sub \in DOMAIN garden'.subjects :
              garden'.subjects[sub] = SubjectPercent(garden'.user, sub)]_vars

\* the first caller has taken both lessons of the first subject, a repeated
\* take was refused and the progress garden reports 100 percent
C16_Witness ==
  /\ posted.status = 400
  /\ posted.student = 1
  /\ Cardinality(TakenOf(1, 1)) = 2
  /\ garden.user = 1
  /\ garden.subjects[1] = 100

\* the steps of a missed dashboard request
CoursesStep(r) == req[r].pc = "courses" /\ req'[r].pc = "ranking"
\* the subjects of a student's grade and the lessons of a subject
GradeSubjects(s) == {sub \in Subjects : SubjectGrade(sub) = StudentGrade(s)}
LessonsOf(sub) == {l \in Lessons : LessonSubject(l) = sub}
Finished(s) ==
  {sub \in GradeSubjects(s) :
     Cardinality(LessonsOf(sub)) > 0
     /\ Cardinality(TakenOf(s, sub)) >= Cardinality(LessonsOf(sub))}
Begun(s) ==
  {sub \in GradeSubjects(s) :
     Cardinality(TakenOf(s, sub)) > 0
     /\ Cardinality(TakenOf(s, sub)) < Cardinality(LessonsOf(sub))}

\* C17: overall_progress_percent is 100 * completed_courses / total_courses
\* rounded to an integer, within 0..100, and 0 without any course; a student
\* with two subjects, one taken in full and one in part, gets completed 1, in
\* progress 1 and 50 percent.
C17_OverallProgress ==
  [][\A r \in Reqs :
       /\ StoreStep(r) =>
            LET stats == resp'.data.quick_stats
                p == resp'.data.overall_progress_percent
            IN /\ p \in 0..100
               /\ stats.total_courses = 0 => p = 0
               /\ stats.total_courses > 0 =>
                    /\ 2 * (p * stats.total_courses - 100 * stats.completed_courses)
                         <= stats.total_courses
                    /\ 2 * (100 * stats.completed_courses - p * stats.total_courses)
                         <= stats.total_courses
       /\ (/\ CoursesStep(r)
           /\ Cardinality(GradeSubjects(req[r].user)) = 2
           /\ Cardinality(Finished(req[r].user)) = 1
           /\ Cardinality(Begun(req[r].user)) = 1) =>
            /\ req'[r].completed_courses = 1
            /\ req'[r].in_progress_courses = 1
            /\ Payload(req'[r]).overall_progress_percent = 50]_vars

\* a dashboard computed for a student with one of two subjects completed and
\* the other in progress shows 50 percent
C17_Witness ==
  /\ resp.user = 1
  /\ ~resp.hit
  /\ resp.data.quick_stats =
       [total_courses |-> 2, completed_courses |-> 1, in_progress_courses |-> 1]
  /\ resp.data.overall_progress_percent = 50

\* C18: the dashboard counts a subject of the student's grade as completed
\* exactly when taken >= total > 0 and as in progress exactly when
\* 0 < taken < total, no subject as both, so that completed + in progress
\* does not exceed the number of courses.
C18_CourseClasses ==
  [][\A r \in Reqs : CoursesStep(r) =>
       LET s == req[r].user
       IN /\ req'[r].total_courses = Cardinality(GradeSubjects(s))
          /\ req'[r].completed_courses = Cardinality(Finished(s))
          /\ req'[r].in_progress_courses = Cardinality(Begun(s))
          /\ Finished(s) \cap Begun(s) = {}
          /\ req'[r].completed_courses + req'[r].in_progress_courses
               <= req'[r].total_courses]_vars

\* a dashboard computed for a student of a grade with a subject without
\* lessons and a subject taken in full counts one completed course of two
C18_Witness ==
  /\ resp.user = NumCallers - 1
  /\ ~resp.hit
  /\ \E sub \in GradeSubjects(NumCallers - 1) : LessonsOf(sub) = {}
  /\ Cardinality(Finished(NumCallers - 1)) = 1
  /\ resp.data.quick_stats.completed_courses = 1
  /\ resp.data.quick_stats.in_progress_courses = 0

\* the lesson counts derived from the ledger for a student
LedgerCounts(s) ==
  <<LessonsCompleted(s), [sub \in Subjects |-> TakenBySubject(s, sub)], MyTaken(s),
    Cardinality({t \in takeLessons : t.student = s})>>
OneEventPerPair ==
  \A t1, t2 \in takeLessons :
    (t1.student = t2.student /\ t1.lesson = t2.lesson) => t1 = t2

\* C19: the ledger holds at most one lesson-taken event per (student,
\* lesson) whatever the interleaving of take-lesson requests, and a take of a
\* lesson already taken is refused and leaves every lesson count unchanged.
C19_OneEventPerLesson ==
  /\ []OneEventPerPair
  /\ [][/\ TakeRefused =>
             /\ ~TakeIsNew(posted'.student, posted'.lesson)
             /\ takeLessons' = takeLessons
             /\ \A s \in Callers : LedgerCounts(s)' = LedgerCounts(s)
        /\ TakeAccepted =>
             /\ TakeIsNew(posted'.student, posted'.lesson)
             /\ \A s \in Callers : posted'.student = s =>
                  LessonsCompleted(s)' = LessonsCompleted(s) + 1]_vars

\* two requests for the same lesson were both validated; the second one to
\* save was refused by the table and the ledger holds the one event
C19_Witness ==
  /\ posted.status = 500
  /\ Cardinality({t \in takeLessons :
        t.student = posted.student /\ t.lesson = posted.lesson}) = 1

OneGradePerPair(rows) ==
  \A g1, g2 \in rows :
    (g1.assessment = g2.assessment /\ g1.student = g2.student) => g1 = g2
\* the rows of a grade table without their scores
Graded(rows) == {<<g.assessment, g.student, g.created_at>> : g \in rows}

FloatLe(x, y) == x # NaN /\ y # NaN /\ x <= y
\* a grade row lies within the marks of its assessment
WithinMarks(g, marks) == FloatLe(0, g.score) /\ FloatLe(g.score, marks)

\* C21: every stored grade satisfies 0 <= score <= marks of its assessment,
\* and a grading request with a negative score or a score above the marks is
\* answered 400 and stores nothing.
C21_ScoresWithinMarks ==
  /\ [](/\ \A g \in lessonGrades : WithinMarks(g, LAMarks(g.assessment))
        /\ \A g \in generalGrades : WithinMarks(g, GAMarks(g.assessment)))
  /\ [][graded'.status = 400 =>
          lessonGrades' = lessonGrades /\ generalGrades' = generalGrades]_vars

FracAdd(a, b) == Frac(a.num * b.den + b.num * a.den, a.den * b.den)

RECURSIVE PercentSum(_, _)
\* the sum over a set of grade rows of score / marks * 100
PercentSum(rows, kind) ==
  IF rows = {} THEN Frac(0, 1)
  ELSE LET g == CHOOSE x \in rows : TRUE
           marks == IF kind = "lesson" THEN LAMarks(g.assessment) ELSE GAMarks(g.assessment)
       IN FracAdd(Frac(g.score * 100, marks), PercentSum(rows \ {g}, kind))

\* the mean of a student's grades of both kinds, each as a percentage of the
\* marks of its assessment; 0 without grades
AverageGradePercentage(s) ==
  LET n == Cardinality(RowsOf(lessonGrades, s)) + Cardinality(RowsOf(generalGrades, s))
      sum == FracAdd(PercentSum(RowsOf(lessonGrades, s), "lesson"),
                     PercentSum(RowsOf(generalGrades, s), "general"))
  IN IF n = 0 THEN Frac(0, 1) ELSE Frac(sum.num, sum.den * n)

\* C22: the average in the performance score of a progress-garden response
\* is the mean of the student's grades as percentages of the marks of their
\* assessments (100 for a student whose grades are all full marks, 0 without
\* grades): my_perf_score = lessons_completed + 2 * that mean.
C22_AverageOfPercentages ==
  (garden.user # 0 /\ garden.status = 200) =>
    LET avg == AverageGradePercentage(garden.user)
    IN FracEq(garden.my_perf_score,
              FracAdd(Frac(garden.lessons_completed, 1), Frac(2 * avg.num, avg.den)))

\* the tables, the cache and the requests in flight: everything a request
\* may read or write besides the two responses
Stored ==
  <<takeLessons, activities, lessonGrades, generalGrades, solutions, cache,
    history, req, posts, submits>>

\* C23: a dashboard or progress-garden request of a user without a Student
\* profile is answered 403 'Student profile required.' and changes nothing:
\* no computation is started for that user, no cache entry is ever stored
\* under that user's key, and no table, cache entry or request in flight
\* changes in the step that answers.
C23_ProfileRequired ==
  /\ [](/\ resp.user = Teacher =>
             resp.status = 403 /\ ~resp.hit /\ resp.data = ProfileRequired
        /\ garden.user = Teacher =>
             garden.status = 403 /\ garden.data = ProfileRequired
        /\ \A r \in Reqs : req[r].user # Teacher
        /\ ~cache[CacheKey(Teacher)].present)
  /\ [][(resp' # resp /\ resp'.user = Teacher) =>
          Stored' = Stored /\ garden' = garden]_vars
  /\ [][(garden' # garden /\ garden'.user = Teacher) =>
          Stored' = Stored /\ resp' = resp]_vars

\* the teacher has been refused both views while the first caller's lessons
\* and cached dashboard are there
C23_Witness ==
  /\ resp.user = Teacher
  /\ resp.status = 403
  /\ garden.user = Teacher
  /\ garden.status = 403
  /\ cache[1].present
  /\ takeLessons # {}

\* C24: a subject whose catalogue has no lesson is reported with percent 0
\* by every view that reports a completion percentage (the subjects of the
\* progress garden, continue_learning of the dashboard, progress_percent of
\* mysubjects), the request succeeds, and every percentage lies in 0..100.
C24_EmptySubjectZero ==
  /\ garden.user # 0 =>
       /\ garden.status = 200
       /\ DOMAIN garden.subjects = SubjectsOf(garden.user)
       /\ \A sub \in DOMAIN garden.subjects :
            /\ garden.subjects[sub] \in 0..100
            /\ TotalBySubject(sub) = 0 => garden.subjects[sub] = 0
  /\ resp.user # 0 =>
       /\ resp.status = 200
       /\ \A sub \in DOMAIN resp.data.continue_learning :
            /\ resp.data.continue_learning[sub] \in 0..100
            /\ TotalBySubject(sub) = 0 => resp.data.continue_learning[sub] = 0
  /\ \A s \in Callers : \A sub \in DOMAIN MySubjects(s) :
       /\ MySubjects(s)[sub] \in 0..100
       /\ TotalBySubject(sub) = 0 => MySubjects(s)[sub] = 0

\* the second caller's garden: the subject with a lesson is complete, the
\* subject without lessons is at 0
C24_Witness ==
  /\ garden.user = NumCallers - 1
  /\ garden.status = 200
  /\ TotalBySubject(NumSubjects) = 0
  /\ NumSubjects \in DOMAIN garden.subjects
  /\ garden.subjects[NumSubjects] = 0
  /\ garden.subjects[NumSubjects - 1] = 100

\* the payloads the requests of user u have stored and whose TTL still runs
StoredFor(u) == {e.data : e \in LiveStores(u)}

\* C25: the dashboard cache is per student: an entry holds a payload that a
\* request of that very student stored, a request answered from the cache
\* returns a payload stored by a request of the same student, and the store
\* of one student's request leaves every other student's entry as it is.
C25_EntriesPerStudent ==
  /\ [](\A u \in Users : cache[u].present => cache[u].data \in StoredFor(u))
  /\ [][HitStep => resp'.data \in StoredFor(resp'.user)]_vars
  /\ [][\A r \in Reqs : StoreStep(r) =>
          \A u \in Users \ {req[r].user} : cache'[u] = cache[u]]_vars

\* both students have an entry, with different payloads; the other student's
\* was stored later, and the first caller is still answered with their own
C25_Witness ==
  /\ cache[1].present
  /\ cache[NumCallers - 1].present
  /\ cache[1].data # cache[NumCallers - 1].data
  /\ history[NumCallers - 1][1].at > history[1][1].at
  /\ resp.hit
  /\ resp.user = 1
  /\ resp.data = cache[1].data

\* a writer is never kept waiting by a dashboard computation between its reads
C26_WritersGoOn ==
  \A r \in Reqs : req[r].pc = "ranking" =>
    /\ TakeIsNew(1, 1) => ENABLED TakeLesson(1, 1)
    /\ ENABLED GradeLesson(1, 1, MaxMarks)

\* C26: a dashboard computation is not atomic with respect to the writers:
\* it reads the course counts first and the streak, the grades and the
\* engagement count in a later step, each from the tables as they are at
\* that moment, a take-lesson or grade write may commit in between, and what
\* it returns and caches puts the two reads together.
C26_ReadsNotAtomic ==
  /\ []C26_WritersGoOn
  /\ [][\A r \in Reqs : RankingStep(r) =>
          LET s == req[r].user
          IN /\ req'[r].cur =
                  CurrentStreak({DayOf(t.created_at) : t \in TakenQs(s)},
                                DayOf(req[r].readAt))
             /\ req'[r].student_ranking \in
                  {BadgeOf(s, BestOf(lt, gt)) :
                     lt \in TopOf(LessonTopWhere(s), "lesson"),
                     gt \in TopOf(GeneralTopWhere(s), "general")}
             /\ req'[r].total_courses = req[r].total_courses
             /\ req'[r].completed_courses = req[r].completed_courses
             /\ req'[r].in_progress_courses = req[r].in_progress_courses
             /\ req'[r].continue_learning = req[r].continue_learning]_vars
  /\ [][\A r \in Reqs : StoreStep(r) =>
          /\ resp'.data = Payload(req[r])
          /\ cache'[req[r].user].data = Payload(req[r])]_vars

\* a payload no single state of the tables gives was returned and cached:
\* no course begun (read before the lesson was taken), a streak of one day
\* and an engagement rank (read after it)
C26_Witness ==
  /\ resp.user = 1
  /\ ~resp.hit
  /\ cache[1].present
  /\ cache[1].data = resp.data
  /\ resp.data.quick_stats.in_progress_courses = 0
  /\ resp.data.quick_stats.completed_courses = 0
  /\ resp.data.streaks.current_study_streak_days = 1
  /\ resp.data.student_ranking.type = "engagement_top20"

\* the students of the grade of s, s included, with a lesson taken
ActiveInGrade(s) ==
  {p \in Students : /\ StudentGrade(p) = StudentGrade(s)
                    /\ \E t \in takeLessons : t.student = p}

\* C27: the engagement rank does not count the student against themself:
\* it lies between 1 and the number of same-grade students with a lesson
\* taken, and it is 1 for a student whom no same-grade peer exceeds (in all
\* lessons taken and in the lessons of the own grade level alike).
C27_NotAgainstOneself ==
  [][\A r \in Reqs :
       (RankingStep(r) /\ req'[r].student_ranking.type = "engagement_top20") =>
         LET s == req[r].user
             rank == req'[r].student_ranking.rank
         IN /\ 1 <= rank
            /\ rank <= Cardinality(ActiveInGrade(s))
            /\ (\A p \in PeersOf(s) : /\ DistinctLessons(p) <= DistinctLessons(s)
                                      /\ GradeLessons(p) <= GradeLessons(s))
                 => rank = 1]_vars

\* the other members of the scope cohort of s with the performance score of s
TiedOthers(scope, s) ==
  Cardinality({p \in ScopeCohort(scope, s) \ {s} : FracEq(CohortPerf(p), CohortPerf(s))})

C29_OneSolutionPerPair ==
  /\ [](\A x, y \in solutions :
          (x.assessment = y.assessment /\ x.student = y.student) => x = y)
  /\ [](submitted.status \in {0, 200})
  /\ [][\A a \in GeneralAssessments, s \in Callers :
          SolutionsOf(a, s) # {} =>
            Cardinality(SolutionsOf(a, s)') = Cardinality(SolutionsOf(a, s))]_vars

\* the teacher's solutions from the approved students of the school whose
\* student has (not) been graded in the assessment
HasGrade(x) ==
  \E g \in generalGrades : g.assessment = x.assessment /\ g.student = x.student
GradedSolutions == {x \in TeacherSolutions : HasGrade(x)}
PendingSolutions == {x \in TeacherSolutions : ~HasGrade(x)}

\* C30: on the teacher dashboard pending_review is the number of submitted
\* solutions without a grade, completion_rate is 100 * graded / (graded +
\* pending) over all of them (in hundredths), and only the
\* pending_submissions list is capped at PendingCap entries.
C30_ReviewCounts ==
  review.status = 200 =>
    LET pending == Cardinality(PendingSolutions)
        done == Cardinality(GradedSolutions)
    IN /\ review.pending_review = pending
       /\ review.completion_rate =
            IF done + pending = 0 THEN 0 ELSE PyRound(done * 100 * 100, done + pending)
       /\ Len(review.pending_submissions) <= PendingCap

====
